---- MODULE Spec2Model ----
(***************************************************************************)
(* sonarr_youtubedl: one reconciliation pass (filterseries ->              *)
(* getseriesepisodes -> download) run once at startup and then from the    *)
(* schedule loop, modelled from src/app/sonarr_youtubedl.py and            *)
(* src/app/utils.py.                                                       *)
(*                                                                         *)
(* Python dicts are functions whose DOMAIN is the set of keys present, so  *)
(* `"offset" in wnt` is "offset" \in DOMAIN wnt.  Times are minutes.       *)
(***************************************************************************)
EXTENDS Integers, Sequences, FiniteSets, TLC

VARIABLES
    pc,         \* where the process is: boot, filterseries, getseriesepisodes,
                \* download, waiting (schedule loop), crashed (uncaught exception)
    clock,      \* wall clock, minutes since the module was loaded
    now,        \* the module-level `now` (sonarr_youtubedl.py:32)
    passStart,  \* wall-clock time at which the running pass entered main()
    nextRun,    \* next_run of the scheduled job; NoJob until it is registered
    wanted,     \* self.series: the wanted list of config.yml
    remote,     \* what get_series() returned to filterseries in this pass
    series,     \* main()'s `series` list (filtered in place by getseriesepisodes)
    fetched,    \* what get_episodes_by_series_id returned, per series id
    episodes,   \* main()'s `episodes`: the needed list
    pos,        \* number of (ser, eps) iterations of download's loops done
    last,       \* what the last iteration of download's inner loop did
    downloaded, \* ids of the episodes YoutubeDL.download was called for in this pass
    dlFailed,   \* a download raised earlier in this pass
    uncaught,   \* the call whose exception ended the process ("none" if none)
    qry,        \* a function run in isolation: its arguments
    ans         \* a function run in isolation: its outcome

vars == <<pc, clock, now, passStart, nextRun, wanted, remote, series, fetched,
          episodes, pos, last, downloaded, dlFailed, uncaught, qry, ans>>

----------------------------------------------------------------------------
(* Bounds *)

MaxWanted == 2      \* entries of the wanted list
MaxSeries == 2      \* series in the Sonarr collection
MaxEps == 2         \* episodes Sonarr lists per series
MaxEntries == 2     \* entries of a playlist result of extract_info
MaxClock == 2       \* minutes of wall clock explored after startup
ScanInterval == 1   \* sonarrytdl.scan_interval of config.yml

Titles == {"A", "a"}
NoJob == -1
None == "None"

\* Wall-clock time at which the module is loaded: day 1, 00:00.
StartDate == [day |-> 1, hour |-> 0, minute |-> 0]

----------------------------------------------------------------------------
(* Generic list helpers (Python list semantics) *)

Range(s) == { s[i] : i \in 1..Len(s) }

\* list.remove(x): drop the first element equal to x.
RECURSIVE Remove(_, _)
Remove(s, x) ==
    IF s = <<>> THEN <<>>
    ELSE IF Head(s) = x THEN Tail(s)
    ELSE <<Head(s)>> \o Remove(Tail(s), x)

RECURSIVE Repeat(_, _)
Repeat(x, n) == IF n = 0 THEN <<>> ELSE <<x>> \o Repeat(x, n - 1)

\* All sequences over S of length at most n.
SeqUpTo(S, n) == UNION { [1..k -> S] : k \in 0..n }

----------------------------------------------------------------------------
(* utils.py *)

\* datetime.strptime(s, date_format): the timestamp string, field by field,
\* to a point on the minute line.
strptime(s) == (s.day * 24 + s.hour) * 60 + s.minute

Get(d, k) == IF k \in DOMAIN d THEN d[k] ELSE 0

\* offsethandler: airdate + timedelta(weeks, days, hours, minutes).
offsethandler(airdate, offset) ==
    airdate + ((Get(offset, "weeks") * 7 + Get(offset, "days")) * 24
               + Get(offset, "hours")) * 60 + Get(offset, "minutes")

\* Strings are sequences of characters.  "u2013" is the en dash and "u2019"
\* the right single quotation mark.
IsPrefix(p, s) == Len(p) <= Len(s) /\ SubSeq(s, 1, Len(p)) = p

\* str.replace(old, new): every non-overlapping occurrence, left to right.
RECURSIVE StrReplace(_, _, _)
StrReplace(s, old, new) ==
    IF s = <<>> THEN <<>>
    ELSE IF IsPrefix(old, s)
         THEN new \o StrReplace(SubSeq(s, Len(old) + 1, Len(s)), old, new)
         ELSE <<Head(s)>> \o StrReplace(Tail(s), old, new)

\* str.upper(), character by character.
UpperOf ==
    [a |-> "A", b |-> "B", c |-> "C", d |-> "D", e |-> "E", f |-> "F", g |-> "G",
     h |-> "H", i |-> "I", j |-> "J", k |-> "K", l |-> "L", m |-> "M", n |-> "N",
     o |-> "O", p |-> "P", q |-> "Q", r |-> "R", s |-> "S", t |-> "T", u |-> "U",
     v |-> "V", w |-> "W", x |-> "X", y |-> "Y", z |-> "Z"]
UpperChar(c) == IF c \in DOMAIN UpperOf THEN UpperOf[c] ELSE c
Upper(s) == [i \in 1..Len(s) |-> UpperChar(s[i])]

\* The optional-character group ([c]?) that upperescape puts for c.
Optional(c) == <<"(", "[">> \o c \o <<"]", "?", ")">>

\* upperescape(string), statement by statement (utils.py lines 47-79).
upperescape(string) ==
    LET s47 == Upper(string)
        s50 == StrReplace(s47, <<"u2013">>, <<"-">>)
        s53 == StrReplace(s50, <<"(">>, <<"\\", "(">>)
        s54 == StrReplace(s53, <<")">>, <<"\\", ")">>)
        s57 == StrReplace(s54, <<":">>, Optional(<<":">>))
        s58 == StrReplace(s57, <<"'">>, Optional(<<"'", "u2019">>))
        s59 == StrReplace(s58, <<",">>, Optional(<<",">>))
        s60 == StrReplace(s59, <<"!">>, Optional(<<"!">>))
        s61 == StrReplace(s60, <<"\\", "?">>, Optional(<<"\\", "?">>))
        s62 == StrReplace(s61, <<"\\", ".">>, Optional(<<"\\", ".">>))
        s65 == StrReplace(s62, <<"\\", " ", "A", "N", "D", "\\", " ">>,
                          <<"\\", " ", "(", "A", "N", "D", "|", "&", ")", "\\", " ">>)
        s71 == StrReplace(s65, <<"-">>, <<"(", "[", "-", "u2013", "]", "?", "?", ")">>)
        s76 == StrReplace(s71, <<"S", "\\">>, Optional(<<"'">>) \o <<"S", "\\">>)
    IN  StrReplace(s76, <<" ">>, <<"\\", "s", "*">>)

CONFIGPATH == "/config/"

\* sys.exit(arg): the exit status of the process.  No argument (None) is
\* status 0; a string is printed to stderr and the status is 1.
ExitStatus(arg) == IF arg = None THEN 0 ELSE 1

\* The files checkconfig reads and writes.
ConfigFile == <<CONFIGPATH, "config.yml">>
ConfigTemplate == <<CONFIGPATH, "config.yml.template">>
AppTemplate == <<"/app/", "config.yml.template">>

\* os.system("cp /app/config.yml.template <config_template>"): the copy is
\* made when the source exists; the command's status is not looked at.
Cp(files, from, to) == IF from \in files THEN files \cup {to} ELSE files

\* checkconfig() on a disk holding `files`: it exits (sys.exit() of line 105)
\* or returns the parsed file.
checkconfig(files, cfg) ==
    IF ConfigFile \notin files
    THEN [exit |-> TRUE, arg |-> None,
          files |-> IF ConfigTemplate \notin files
                    THEN Cp(files, AppTemplate, ConfigTemplate) ELSE files,
          log |-> <<"critical", "critical">>]
    ELSE [exit |-> FALSE, cfg |-> cfg, files |-> files, log |-> <<"info">>]

----------------------------------------------------------------------------
(* The "matchtitle" option: re.search(pattern, title, re.IGNORECASE), for the *)
(* regex constructs a compiled title can hold                                 *)

\* Index of the first unescaped `closer` of p at or after i (Len(p) + 1 when
\* there is none); a [class] on the way to a ")" is skipped.
RECURSIVE FindClose(_, _, _)
FindClose(p, i, closer) ==
    IF i > Len(p) THEN Len(p) + 1
    ELSE IF p[i] = "\\" THEN FindClose(p, i + 2, closer)
    ELSE IF p[i] = closer THEN i
    ELSE IF p[i] = "[" /\ closer # "]"
         THEN FindClose(p, FindClose(p, i + 1, "]") + 1, closer)
    ELSE FindClose(p, i + 1, closer)

\* Length of the atom p starts with: \x, [class], (group) or one character.
AtomLen(p) ==
    IF Head(p) = "\\" THEN 2
    ELSE IF Head(p) = "[" THEN FindClose(p, 2, "]")
    ELSE IF Head(p) = "(" THEN FindClose(p, 2, ")")
    ELSE 1

\* The alternatives of a group body, split at its top-level "|".
RECURSIVE Alternatives(_)
Alternatives(p) ==
    LET bar == FindClose(p, 1, "|")
    IN  IF bar > Len(p) THEN {p}
        ELSE {SubSeq(p, 1, bar - 1)} \cup Alternatives(SubSeq(p, bar + 1, Len(p)))

\* The members of a [class] body, escapes removed.
RECURSIVE ClassChars(_)
ClassChars(body) ==
    IF body = <<>> THEN {}
    ELSE IF Head(body) = "\\" /\ Len(body) > 1
         THEN {body[2]} \cup ClassChars(SubSeq(body, 3, Len(body)))
    ELSE {Head(body)} \cup ClassChars(Tail(body))

\* A one-character atom against the character c, ignoring case.
CharMatches(atom, c) ==
    IF atom = <<"\\", "s">> THEN c = " "
    ELSE IF Head(atom) = "\\" THEN UpperChar(atom[2]) = UpperChar(c)
    ELSE IF Head(atom) = "["
         THEN \E m \in ClassChars(SubSeq(atom, 2, Len(atom) - 1)) :
                  UpperChar(m) = UpperChar(c)
    ELSE IF atom = <<".">> THEN TRUE
    ELSE UpperChar(Head(atom)) = UpperChar(c)

RECURSIVE Ends(_, _, _)
RECURSIVE Once(_, _, _)
RECURSIVE Star(_, _, _)

\* The positions of s the pattern p can end at when started at a position of J.
Ends(p, s, J) ==
    IF p = <<>> \/ J = {} THEN J
    ELSE LET n == AtomLen(p)
             atom == SubSeq(p, 1, n)
             after == SubSeq(p, n + 1, Len(p))
             star == IsPrefix(<<"*">>, after)
             opt == IsPrefix(<<"?">>, after)
             q == IF star THEN 1
                  ELSE IF IsPrefix(<<"?", "?">>, after) THEN 2
                  ELSE IF opt THEN 1 ELSE 0
             J1 == IF star THEN Star(atom, s, J)
                   ELSE IF opt THEN J \cup Once(atom, s, J)
                   ELSE Once(atom, s, J)
         IN  Ends(SubSeq(after, q + 1, Len(after)), s, J1)

\* One occurrence of the atom.
Once(atom, s, J) ==
    IF Head(atom) = "("
    THEN UNION { Ends(alt, s, J) : alt \in Alternatives(SubSeq(atom, 2, Len(atom) - 1)) }
    ELSE { j + 1 : j \in { k \in J : k < Len(s) /\ CharMatches(atom, s[k + 1]) } }

\* Zero or more occurrences of the atom.
Star(atom, s, J) ==
    LET more == J \cup Once(atom, s, J)
    IN  IF more = J THEN J ELSE Star(atom, s, more)

\* bool(re.search(pattern, title, re.IGNORECASE))
ReSearch(pattern, title) == Ends(pattern, title, 0..Len(title)) # {}

----------------------------------------------------------------------------
(* SonarrYTDL.filterseries *)

\* The body of `if wnt["title"] == ser["title"]:` -- the keys it sets on ser.
\* (regex, format, subtitles and playlistreverse keys are set the same way and
\* are read by no later stage modelled here.)
ApplyWanted(ser, wnt) ==
    LET s1 == IF "offset" \in DOMAIN wnt
              THEN [offset |-> wnt.offset] @@ ser ELSE ser
        s2 == IF "cookies_file" \in DOMAIN wnt
              THEN [cookies_file |-> wnt.cookies_file] @@ s1 ELSE s1
    IN  [url |-> wnt.url] @@ s2

TitleMatches(wnt, ser) == wnt.title = ser.title

\* The inner `for wnt in self.series` loop on one ser: ser is updated in place
\* by every matching entry, and appended to matched once per matching entry.
RECURSIVE MatchWanted(_, _, _)
MatchWanted(ser, wl, n) ==
    IF wl = <<>> THEN [ser |-> ser, n |-> n]
    ELSE IF TitleMatches(Head(wl), ser)
         THEN MatchWanted(ApplyWanted(ser, Head(wl)), Tail(wl), n + 1)
         ELSE MatchWanted(ser, Tail(wl), n)

\* filterseries leaving out the series Sonarr does not monitor.
RECURSIVE filterseriesSkipUnmonitored(_, _)
filterseriesSkipUnmonitored(sl, wl) ==
    IF sl = <<>> THEN <<>>
    ELSE LET m == MatchWanted(Head(sl), wl, 0)
         IN  (IF Head(sl).monitored THEN Repeat(m.ser, m.n) ELSE <<>>)
             \o filterseriesSkipUnmonitored(Tail(sl), wl)

\* filterseries on the listing sl that get_series() returned: matched holds
\* the same (updated) ser object once per matching wanted entry.
RECURSIVE filterseries(_, _)
filterseries(sl, wl) ==
    IF sl = <<>> THEN <<>>
    ELSE LET m == MatchWanted(Head(sl), wl, 0)
         IN  Repeat(m.ser, m.n) \o filterseries(Tail(sl), wl)

----------------------------------------------------------------------------
(* SonarrYTDL.getseriesepisodes *)

\* eps_date of lines 211-215.
EpsDate(ser, eps, nw) ==
    IF "airDateUtc" \in DOMAIN eps
    THEN IF "offset" \in DOMAIN ser
         THEN offsethandler(strptime(eps.airDateUtc), ser.offset)
         ELSE strptime(eps.airDateUtc)
    ELSE nw

\* Excluded with the date test off by one: an episode due exactly now is dropped.
ExcludedNotBefore(ser, eps, nw) ==
    ~eps.monitored \/ eps.hasFile \/ EpsDate(ser, eps, nw) >= nw

\* The condition of line 216 under which the episode is removed.
Excluded(ser, eps, nw) ==
    ~eps.monitored \/ eps.hasFile \/ EpsDate(ser, eps, nw) > nw

\* The inner loop over episodes[:]: the list left in `episodes` and the
\* episodes appended to `needed`, in listing order.
RECURSIVE EpsLoop(_, _, _, _, _)
EpsLoop(ser, todo, left, needed, nw) ==
    IF todo = <<>> THEN [left |-> left, needed |-> needed]
    ELSE IF Excluded(ser, Head(todo), nw)
         THEN EpsLoop(ser, Tail(todo), Remove(left, Head(todo)), needed, nw)
         ELSE EpsLoop(ser, Tail(todo), left, Append(needed, Head(todo)), nw)

\* The outer loop over series[:] (a copy): `cur` is the list being edited.
RECURSIVE SeriesLoop(_, _, _, _, _)
SeriesLoop(todo, cur, needed, eplist, nw) ==
    IF todo = <<>> THEN [series |-> cur, needed |-> needed]
    ELSE LET ser == Head(todo)
             r   == EpsLoop(ser, eplist[ser.id], eplist[ser.id], needed, nw)
         IN  SeriesLoop(Tail(todo),
                        IF Len(r.left) = 0 THEN Remove(cur, ser) ELSE cur,
                        r.needed, eplist, nw)

\* getseriesepisodes without the series.remove(ser) of line 227.
getseriesepisodesKeepAll(sl, eplist, nw) ==
    [series |-> sl, needed |-> SeriesLoop(sl, sl, <<>>, eplist, nw).needed]

\* getseriesepisodes(series): .series is the argument list after the call,
\* .needed the list returned.  eplist[id] is Sonarr's answer for series id.
getseriesepisodes(sl, eplist, nw) == SeriesLoop(sl, sl, <<>>, eplist, nw)

----------------------------------------------------------------------------
(* SonarrYTDL.ytsearch *)

NoneVal == [none |-> TRUE]            \* Python's None where a dict may stand
IsNone(x) == "none" \in DOMAIN x

\* dict.get("webpage_url"): None when the key is absent.
GetUrl(d) == IF "webpage_url" \in DOMAIN d THEN d.webpage_url ELSE None

\* video_url after lines 297-305, for a result dict.  entries[0].get raises
\* AttributeError when entries[0] is None; it is caught and video_url stays None.
VideoUrl(result) ==
    LET entries == IF "entries" \in DOMAIN result THEN result.entries ELSE <<>>
    IN  IF entries # <<>> /\ entries # <<NoneVal>>
        THEN IF IsNone(entries[1]) THEN None ELSE GetUrl(entries[1])
        ELSE GetUrl(result)

Found(url) == [kind |-> "tuple", found |-> TRUE, url |-> url]
NotFound == [kind |-> "tuple", found |-> FALSE, url |-> ""]

\* ytsearch(ydl_opts, playlist) on what extract_info did: out.raised, or
\* out.result (None or a dict).  kind "None" is the implicit `return None`
\* after the except branch; kind "raise" an exception leaving ytsearch.
ytsearch(out, playlist) ==
    IF out.raised THEN [kind |-> "None"]
    ELSE IF IsNone(out.result) THEN [kind |-> "raise"]
    ELSE LET video_url == VideoUrl(out.result)
         IN  IF playlist = video_url THEN NotFound
             ELSE IF video_url = None THEN NotFound
             ELSE Found(video_url)

----------------------------------------------------------------------------
(* SonarrYTDL.download *)

\* The (ser, eps) iterations of the nested loops whose `if ser["id"] ==
\* eps["seriesId"]` holds, in loop order.
RECURSIVE EpsOf(_, _)
EpsOf(ser, el) ==
    IF el = <<>> THEN <<>>
    ELSE (IF ser.id = Head(el).seriesId
          THEN <<[ser |-> ser, eps |-> Head(el)]>> ELSE <<>>)
         \o EpsOf(ser, Tail(el))

RECURSIVE Pairs(_, _)
Pairs(sl, el) ==
    IF sl = <<>> THEN <<>> ELSE EpsOf(Head(sl), el) \o Pairs(Tail(sl), el)

----------------------------------------------------------------------------
(* SonarrYTDL.__init__ *)

\* The values __init__ reads from cfg, in the order it reads them, and the
\* argument of the sys.exit that ends the process when one is missing.
ConfigKeys ==
    << [key |-> "sonarrytdl", arg |-> None],
       [key |-> "sonarr", arg |-> None],
       [key |-> "default_format", arg |-> None],
       [key |-> "merge_output_format", arg |-> "Error with ytdl config.yml values."],
       [key |-> "series", arg |-> None] >>

RECURSIVE ReadConfig(_, _)
ReadConfig(cfg, keys) ==
    IF keys = <<>> THEN [exit |-> FALSE]
    ELSE IF Head(keys).key \notin DOMAIN cfg THEN [exit |-> TRUE, arg |-> Head(keys).arg]
    ELSE ReadConfig(cfg, Tail(keys))

\* SonarrYTDL(): checkconfig(), then the sections of cfg.
SonarrYTDL(files, cfg) ==
    LET c == checkconfig(files, cfg)
    IN  IF c.exit THEN c
        ELSE LET r == ReadConfig(c.cfg, ConfigKeys)
             IN  IF r.exit THEN [exit |-> TRUE, arg |-> r.arg, files |-> c.files,
                                 log |-> c.log \o <<"exception">>]
                 ELSE c

----------------------------------------------------------------------------
(* SonarrYTDL.appendcookie, ytdl_eps_search_opts and download's option set *)

\* os.path.abspath(CONFIGPATH + cookies)
CookiePath(cookies) == <<CONFIGPATH, cookies>>

\* dict.update
Update(d, more) == more @@ d

\* appendcookie(ytdlopts, cookies) with `files` the paths that exist on disk:
\* the options returned and the level of the line it logs.  The variant
\* before it attaches the path without looking at the disk.
appendcookieUnchecked(ytdlopts, cookies, files) ==
    IF cookies # None
    THEN [opts |-> Update(ytdlopts, [cookiefile |-> CookiePath(cookies)]),
          log |-> <<"debug">>]
    ELSE [opts |-> ytdlopts, log |-> <<>>]

appendcookie(ytdlopts, cookies, files) ==
    IF cookies # None
    THEN LET cookie_path == CookiePath(cookies)
             cookie_exists == cookie_path \in files
         IN  IF cookie_exists
             THEN [opts |-> Update(ytdlopts, [cookiefile |-> cookie_path]),
                   log |-> <<"debug">>]
             ELSE [opts |-> ytdlopts, log |-> <<"warning">>]
    ELSE [opts |-> ytdlopts, log |-> <<>>]

\* customformat(ytdlopts, customformat)
customformat(ytdlopts, format) ==
    IF format # None THEN Update(ytdlopts, [format |-> format]) ELSE ytdlopts

\* cookies = None; if "cookies_file" in ser: cookies = ser["cookies_file"]
CookiesOf(ser) == IF "cookies_file" \in DOMAIN ser THEN ser.cookies_file ELSE None

\* The options debug mode adds.
DebugOpts(debug, hooks) ==
    IF debug THEN [quiet |-> FALSE, logger |-> "YoutubeDLLogger", progress_hooks |-> hooks]
    ELSE <<>>

\* ytdl_eps_search_opts(regextitle, playlistreverse, cookies)
ytdl_eps_search_opts(regextitle, playlistreverse, cookies, debug, files) ==
    LET ytdlopts == [ignoreerrors |-> TRUE, playlistreverse |-> playlistreverse,
                     matchtitle |-> regextitle, quiet |-> TRUE]
    IN  appendcookie(Update(ytdlopts, DebugOpts(debug, "ytdl_hooks")), cookies, files)

\* ytdl_format_options of download (lines 339-384) for a found episode.
ytdl_format_options(ser, eps, debug, files) ==
    LET base == [format |-> "default_format", quiet |-> TRUE,
                 merge_output_format |-> "merge_output_format",
                 outtmpl |-> <<ser.title, eps.title>>,
                 progress_hooks |-> "ytdl_hooks", noplaylist |-> TRUE]
        c == appendcookie(base, CookiesOf(ser), files)
        f == IF "format" \in DOMAIN ser THEN customformat(c.opts, ser.format) ELSE c.opts
        subs == IF ser.subtitles
                THEN Update(f, [writesubtitles |-> TRUE, allsubtitles |-> TRUE,
                                writeautomaticsub |-> TRUE,
                                subtitleslangs |-> ser.subtitles_languages,
                                embedsubtitles |-> TRUE])
                ELSE f
        post == Update(subs, [postprocessors |->
                    IF ser.subtitles
                    THEN <<"FFmpegSubtitlesConvertor", "FFmpegEmbedSubtitle">>
                    ELSE <<>>])
    IN  [opts |-> Update(post, DebugOpts(debug, "ytdl_hooks_debug")), log |-> c.log]

----------------------------------------------------------------------------
(* The environment: config.yml, Sonarr's answers, the catalog's answers *)

PlaylistUrl == "p"
Urls == {PlaylistUrl, "v1", "v2"}

\* config.yml's series list: titles and the catalog URL.
WantedEntries == { [title |-> t, url |-> PlaylistUrl] : t \in Titles }
Configs == SeqUpTo(WantedEntries, MaxWanted)

\* An entry with an air-date offset.
Offsets ==
    { [minutes |-> 1], [hours |-> -1], [hours |-> 1, minutes |-> 1],
      [weeks |-> 1, days |-> -7], [days |-> 1, hours |-> -24, minutes |-> -1],
      [weeks |-> -1, days |-> 7, hours |-> 1] }
OffsetEntries ==
    { [title |-> "A", url |-> PlaylistUrl, offset |-> o] : o \in Offsets }

\* get_series(): series 1..n of the collection, in Sonarr's order.
TitleNames == <<"A", "a", "B", "b">>
TitleOf(i) == TitleNames[((i - 1) % Len(TitleNames)) + 1]

\* Recs[i]: the records series i may have.
ListingsOver(Recs) ==
    UNION { { sl \in [1..n -> UNION { Recs[i] : i \in 1..n }] :
                \A i \in 1..n : sl[i] \in Recs[i] } : n \in 0..MaxSeries }

\* Any title, monitored or not.
AnySeries ==
    [i \in 1..MaxSeries |->
        { [id |-> i, title |-> t, monitored |-> m] : t \in Titles, m \in BOOLEAN }]
\* Sonarr's usual collection: distinct titles, all monitored.
PlainSeries ==
    [i \in 1..MaxSeries |-> { [id |-> i, title |-> TitleOf(i), monitored |-> TRUE] }]

AnyListings == ListingsOver(AnySeries)
PlainListings == ListingsOver(PlainSeries)

\* Air dates around the time the module was loaded (StartDate).
SoonDate == [day |-> 1, hour |-> 0, minute |-> 1]
PastDate == [day |-> 0, hour |-> 23, minute |-> 0]

\* Episodes as far as the pass reads them: needed, on disk, airing in a minute.
EpShapes ==
    { [monitored |-> TRUE, hasFile |-> FALSE],
      [monitored |-> TRUE, hasFile |-> TRUE],
      [monitored |-> TRUE, hasFile |-> FALSE, airDateUtc |-> SoonDate] }

\* Every combination of the fields the need filter reads.
AirDateShapes ==
    { [monitored |-> m, hasFile |-> f] : m \in BOOLEAN, f \in BOOLEAN }
    \cup { [monitored |-> m, hasFile |-> f, airDateUtc |-> d] :
             m \in BOOLEAN, f \in BOOLEAN, d \in {StartDate, SoonDate, PastDate} }

EpId(sid, k) == (sid - 1) * MaxEps + k
EpIds == 1..(MaxSeries * MaxEps)

\* get_episodes_by_series_id(sid): up to MaxEps episodes of that series.
ListsOf(Shapes, sid) ==
    { [k \in 1..Len(sh) |-> [id |-> EpId(sid, k), seriesId |-> sid] @@ sh[k]] :
        sh \in SeqUpTo(Shapes, MaxEps) }
EpisodeLists == [sid \in 1..MaxSeries |-> ListsOf(EpShapes, sid)]
AirDateLists == [sid \in 1..MaxSeries |-> ListsOf(AirDateShapes, sid)]

SeriesIdsOf(sl) == { sl[i].id : i \in 1..Len(sl) }

\* What extract_info does: raises, returns None (ignoreerrors), or returns
\* a dict, with or without "entries" and "webpage_url".
Raised == [raised |-> TRUE, result |-> NoneVal]
Returned(r) == [raised |-> FALSE, result |-> r]

EntryValues ==
    {NoneVal, [id |-> "x"]} \cup { [id |-> "x", webpage_url |-> u] : u \in Urls }
ResultDicts ==
    LET lists == SeqUpTo(EntryValues, MaxEntries)
    IN  {[id |-> "x"]}
        \cup { [id |-> "x", webpage_url |-> u] : u \in Urls }
        \cup { [id |-> "x", entries |-> el] : el \in lists }
        \cup { [id |-> "x", entries |-> el, webpage_url |-> u] :
                 el \in lists, u \in Urls }
AnyOutcomes == {Raised, Returned(NoneVal)} \cup { Returned(r) : r \in ResultDicts }

\* The outcomes a pass is run against.
PassOutcomes ==
    { Raised,
      Returned(NoneVal),
      Returned([id |-> "x", entries |-> <<>>, webpage_url |-> PlaylistUrl]),
      Returned([id |-> "x", entries |-> <<[id |-> "x", webpage_url |-> "v1"]>>,
                webpage_url |-> PlaylistUrl]) }

\* last: what extract_info did (search), what was logged for the episode, how
\* the download and rescan calls ended, and whether the download call was for
\* an episode id already in `downloaded`.
NoLast ==
    [search |-> "none", log |-> "none", download |-> "none", rescan |-> "none",
     again |-> FALSE]
Wall == strptime(StartDate) + clock

----------------------------------------------------------------------------
(* The process *)

\* The module is loaded: now = datetime.now() (line 32), nothing has run.
Loaded ==
    /\ clock = 0
    /\ now = strptime(StartDate)
    /\ nextRun = NoJob
    /\ fetched = <<>>
    /\ episodes = <<>>
    /\ pos = 0
    /\ last = NoLast
    /\ downloaded = {}
    /\ dlFailed = FALSE
    /\ uncaught = "none"

\* ytsearch is not being run in isolation.
NoQuery ==
    /\ qry = NoneVal
    /\ ans = NoneVal

Init ==
    /\ Loaded
    /\ NoQuery
    /\ pc = "boot"
    /\ passStart = NoJob
    /\ wanted \in Configs
    /\ remote = <<>>
    /\ series = <<>>

\* main() is entered: client = SonarrYTDL() reads config.yml again.
EnterMain ==
    /\ pc' = "filterseries"
    /\ passStart' = Wall
    /\ UNCHANGED <<clock, now, nextRun, wanted, remote, series, fetched,
                   episodes, pos, last, downloaded, dlFailed, uncaught, qry, ans>>

\* `main()` of line 418.
InitialRun ==
    /\ pc = "boot"
    /\ EnterMain

\* An exception nothing catches: it leaves main(), and neither run_pending()
\* nor the module's top level catches it.
Crash(what) ==
    /\ pc' = "crashed"
    /\ uncaught' = what

\* filterseries: get_series() raises.
GetSeriesFails ==
    /\ pc = "filterseries"
    /\ Crash("get_series")
    /\ UNCHANGED <<clock, now, passStart, nextRun, wanted, remote, series,
                   fetched, episodes, pos, last, downloaded, dlFailed, qry, ans>>

\* series = client.filterseries(), get_series() answering with a listing of L.
ResolveStage(L) ==
    /\ pc = "filterseries"
    /\ \E sl \in L :
          /\ remote' = sl
          /\ series' = filterseries(sl, wanted)
    /\ pc' = "getseriesepisodes"
    /\ UNCHANGED <<clock, now, passStart, nextRun, wanted, fetched, episodes,
                   pos, last, downloaded, dlFailed, uncaught, qry, ans>>

FilterSeries == ResolveStage(PlainListings)

\* getseriesepisodes: a get_episodes_by_series_id() call raises.
GetEpisodesFails ==
    /\ pc = "getseriesepisodes"
    /\ series # <<>>
    /\ Crash("get_episodes")
    /\ UNCHANGED <<clock, now, passStart, nextRun, wanted, remote, series,
                   fetched, episodes, pos, last, downloaded, dlFailed, qry, ans>>

\* episodes = client.getseriesepisodes(series), Sonarr answering the call for
\* series i with a list of Lists[i].
NeedStage(Lists) ==
    /\ pc = "getseriesepisodes"
    /\ \E el \in [SeriesIdsOf(series) -> UNION { Lists[i] : i \in 1..MaxSeries }] :
          /\ \A i \in DOMAIN el : el[i] \in Lists[i]
          /\ fetched' = el
          /\ LET r == getseriesepisodes(series, el, now)
             IN  /\ series' = r.series
                 /\ episodes' = r.needed
    /\ pc' = "download"
    /\ UNCHANGED <<clock, now, passStart, nextRun, wanted, remote, pos, last,
                   downloaded, dlFailed, uncaught, qry, ans>>

GetSeriesEpisodes == NeedStage(EpisodeLists)

\* The iteration of download's loops that runs next.
Cur == Pairs(series, episodes)[pos + 1]
InLoop == pc = "download" /\ pos < Len(Pairs(series, episodes))

\* What an iteration leaves alone.  The listings of the earlier stages were
\* locals of those stages.
IterationKeeps ==
    /\ remote' = <<>>
    /\ fetched' = <<>>
    /\ UNCHANGED <<clock, now, passStart, nextRun, wanted, series, episodes,
                   qry, ans>>

\* found, dlurl = self.ytsearch(...) does not yield a pair: ytsearch returned
\* None (TypeError on unpacking) or raised.
SearchAborts ==
    /\ InLoop
    /\ \E out \in PassOutcomes :
          /\ ytsearch(out, Cur.ser.url).kind # "tuple"
          /\ last' = [NoLast EXCEPT !.search = IF out.raised THEN "raised" ELSE "None"]
    /\ Crash("ytsearch")
    /\ UNCHANGED <<pos, downloaded, dlFailed>>
    /\ IterationKeeps

\* else: logger.info("Missing - ...")
SearchMissing ==
    /\ InLoop
    /\ \E out \in PassOutcomes :
          LET r == ytsearch(out, Cur.ser.url)
          IN  r.kind = "tuple" /\ ~r.found
    /\ last' = [NoLast EXCEPT !.search = "dict", !.log = "Missing"]
    /\ pos' = pos + 1
    /\ UNCHANGED <<pc, downloaded, dlFailed, uncaught>>
    /\ IterationKeeps

SearchFinds ==
    \E out \in PassOutcomes :
        LET r == ytsearch(out, Cur.ser.url)
        IN  r.kind = "tuple" /\ r.found

\* The try block of lines 387-392 when YoutubeDL.download is called with the
\* outcome dl, and rescanseries (if reached) with the outcome rs.
\* rescan "error": Sonarr answers with an error body and nothing raises.
TryDownload(dl, rs) ==
    /\ SearchFinds
    /\ downloaded' = downloaded \cup {Cur.eps.id}
    /\ last' = [search |-> "dict",
                log |-> IF dl = "ok" /\ rs # "raise" THEN "Downloaded" ELSE "Failed",
                download |-> dl,
                rescan |-> IF dl = "ok" THEN rs ELSE "none",
                again |-> Cur.eps.id \in downloaded]
    /\ dlFailed' = (dlFailed \/ dl = "raise")
    /\ pos' = pos + 1
    /\ UNCHANGED <<pc, uncaught>>
    /\ IterationKeeps

\* download and rescan both return: logger.info("Downloaded - ...")
DownloadSucceeds ==
    /\ InLoop
    /\ \E rs \in {"ok", "error"} : TryDownload("ok", rs)

\* download returns, rescanseries raises inside the same try block.
RescanRaises ==
    /\ InLoop
    /\ TryDownload("ok", "raise")

\* YoutubeDL.download raises: rescanseries is not reached.
DownloadRaises ==
    /\ InLoop
    /\ TryDownload("raise", "none")

\* Both loops are done (or len(series) == 0): main() returns and its locals
\* are gone.  After the initial run line 419 registers the job; after a
\* scheduled run the schedule library sets the job's next run.  Either way
\* next_run = now + interval.
MainReturns ==
    /\ pc = "download"
    /\ pos = Len(Pairs(series, episodes))
    /\ pc' = "waiting"
    /\ nextRun' = Wall + ScanInterval
    /\ remote' = <<>>
    /\ series' = <<>>
    /\ fetched' = <<>>
    /\ episodes' = <<>>
    /\ pos' = 0
    /\ last' = NoLast
    /\ downloaded' = {}
    /\ dlFailed' = FALSE
    /\ UNCHANGED <<clock, now, passStart, wanted, uncaught, qry, ans>>

\* time.sleep(1) while the job is not due.
Sleep ==
    /\ pc = "waiting"
    /\ Wall < nextRun
    /\ clock < MaxClock
    /\ clock' = clock + 1
    /\ UNCHANGED <<pc, now, passStart, nextRun, wanted, remote, series,
                   fetched, episodes, pos, last, downloaded, dlFailed, uncaught,
                   qry, ans>>

\* schedule.run_pending() finds the job due and calls main().
RunPending ==
    /\ pc = "waiting"
    /\ Wall >= nextRun
    /\ EnterMain

Next ==
    \/ InitialRun
    \/ GetSeriesFails
    \/ FilterSeries
    \/ GetEpisodesFails
    \/ GetSeriesEpisodes
    \/ SearchAborts
    \/ SearchMissing
    \/ DownloadSucceeds
    \/ RescanRaises
    \/ DownloadRaises
    \/ MainReturns
    \/ Sleep
    \/ RunPending

Spec == Init /\ [][Next]_vars

----------------------------------------------------------------------------
(* The stages on their own, each started in the state in which main() *)
(* reaches it, against a wider range of answers                       *)

\* main() has been entered for the initial run.
Entered ==
    /\ Loaded
    /\ NoQuery
    /\ passStart = Wall

\* filterseries against any Sonarr collection.
InitResolve ==
    /\ Entered
    /\ pc = "filterseries"
    /\ wanted \in Configs
    /\ remote = <<>>
    /\ series = <<>>

FilterSeriesAny == ResolveStage(AnyListings)

NextResolve ==
    \/ FilterSeriesAny
    \/ GetSeriesFails

SpecResolve == InitResolve /\ [][NextResolve]_vars

\* getseriesepisodes on what filterseries returned.
Resolved(wl, sl) ==
    /\ Entered
    /\ pc = "getseriesepisodes"
    /\ wanted = wl
    /\ remote = sl
    /\ series = filterseries(sl, wl)

InitNeed == \E wl \in Configs, sl \in PlainListings : Resolved(wl, sl)

NextNeed ==
    \/ GetSeriesEpisodes
    \/ GetEpisodesFails

SpecNeed == InitNeed /\ [][NextNeed]_vars

\* getseriesepisodes on one series, with or without an offset, against every
\* combination of monitored, hasFile and air date.
InitAirDate ==
    \E e \in OffsetEntries \cup {[title |-> "A", url |-> PlaylistUrl]} :
        Resolved(<<e>>, <<[id |-> 1, title |-> "A", monitored |-> TRUE]>>)

GetSeriesEpisodesAirDates == NeedStage(AirDateLists)

NextAirDate ==
    \/ GetSeriesEpisodesAirDates
    \/ GetEpisodesFails

SpecAirDate == InitAirDate /\ [][NextAirDate]_vars

\* ytsearch on any outcome of extract_info.
InitSearch ==
    /\ Loaded
    /\ pc = "ytsearch"
    /\ passStart = NoJob
    /\ wanted = <<>>
    /\ remote = <<>>
    /\ series = <<>>
    /\ qry \in { [out |-> o, playlist |-> PlaylistUrl] : o \in AnyOutcomes }
    /\ ans = NoneVal

Search ==
    /\ pc = "ytsearch"
    /\ ans' = ytsearch(qry.out, qry.playlist)
    /\ pc' = "searched"
    /\ UNCHANGED <<clock, now, passStart, nextRun, wanted, remote, series,
                   fetched, episodes, pos, last, downloaded, dlFailed, uncaught,
                   qry>>

NextSearch == Search

SpecSearch == InitSearch /\ [][NextSearch]_vars

\* The option sets of one (ser, eps) iteration of download, for a series with
\* or without a cookies_file, with any of the cookie files on disk.
CookieFiles == {"c1", "c2"}

\* ser as filterseries leaves it (lines 167-198).
CookieSeries ==
    LET base == [id |-> 1, title |-> "A", monitored |-> TRUE, url |-> PlaylistUrl,
                 playlistreverse |-> TRUE, subtitles_languages |-> <<"en">>,
                 subtitles_autogenerated |-> FALSE, preprend_with_title |-> FALSE]
        cookie == {<<>>} \cup { [cookies_file |-> c] : c \in CookieFiles }
        format == {<<>>, [format |-> "f"]}
    IN  { Update(Update(Update(base, [subtitles |-> sub]), c), f) :
            sub \in BOOLEAN, c \in cookie, f \in format }

InitOptions ==
    /\ Loaded
    /\ pc = "options"
    /\ passStart = NoJob
    /\ wanted = <<>>
    /\ remote = <<>>
    /\ series = <<>>
    /\ qry \in { [ser |-> ser, eps |-> [id |-> 1, seriesId |-> 1, title |-> <<"T">>],
                  debug |-> d, files |-> fs] :
                  ser \in CookieSeries, d \in BOOLEAN,
                  fs \in SUBSET { CookiePath(c) : c \in CookieFiles } }
    /\ ans = NoneVal

OptionsKeep ==
    UNCHANGED <<clock, now, passStart, nextRun, wanted, remote, series, fetched,
                episodes, pos, last, downloaded, dlFailed, uncaught, qry>>

\* ydleps = self.ytdl_eps_search_opts(upperescape(eps_title), ...) (line 330)
SearchOptions ==
    /\ pc = "options"
    /\ ans' = [search |-> ytdl_eps_search_opts(upperescape(qry.eps.title),
                              qry.ser.playlistreverse, CookiesOf(qry.ser),
                              qry.debug, qry.files)]
    /\ pc' = "search"
    /\ OptionsKeep

\* The search found the episode: lines 339-386 build the download's options.
DownloadOptions ==
    /\ pc = "search"
    /\ ans' = Update(ans, [download |->
                  ytdl_format_options(qry.ser, qry.eps, qry.debug, qry.files)])
    /\ pc' = "try"
    /\ OptionsKeep

NextOptions ==
    \/ SearchOptions
    \/ DownloadOptions

SpecOptions == InitOptions /\ [][NextOptions]_vars

\* upperescape on titles put together from a few pieces, and the compiled
\* pattern against the title and against its " & " spellings.
MaxPieces == 5
TitlePieces ==
    { <<"B">>, <<" ">>, <<"\\", " ">>, <<"A", "N", "D">>, <<"a", "n", "d">>, <<"&">> }

RECURSIVE Flatten(_)
Flatten(ss) == IF ss = <<>> THEN <<>> ELSE Head(ss) \o Flatten(Tail(ss))

PatternTitles == { Flatten(ps) : ps \in SeqUpTo(TitlePieces, MaxPieces) }

\* Where the title holds " AND " (in any case), and the title with " & " there.
AndWord == <<" ", "A", "N", "D", " ">>
AndPositions(t) ==
    { i \in 1..Len(t) : IsPrefix(AndWord, Upper(SubSeq(t, i, Len(t)))) }
WithAmpersand(t, i) ==
    SubSeq(t, 1, i - 1) \o <<" ", "&", " ">> \o SubSeq(t, i + Len(AndWord), Len(t))

InitPattern ==
    /\ Loaded
    /\ pc = "upperescape"
    /\ passStart = NoJob
    /\ wanted = <<>>
    /\ remote = <<>>
    /\ series = <<>>
    /\ qry \in { [title |-> t] : t \in PatternTitles }
    /\ ans = NoneVal

\* "matchtitle": upperescape(eps_title)
CompileTitle ==
    /\ pc = "upperescape"
    /\ ans' = [pattern |-> upperescape(qry.title)]
    /\ pc' = "matchtitle"
    /\ OptionsKeep

\* The catalog holds the title as written, or with " & " for one " AND ".
MatchTitle ==
    /\ pc = "matchtitle"
    /\ \E c \in {qry.title}
                \cup { WithAmpersand(qry.title, i) : i \in AndPositions(qry.title) } :
          ans' = [pattern |-> ans.pattern, candidate |-> c,
                  matched |-> ReSearch(ans.pattern, c)]
    /\ pc' = "matched"
    /\ OptionsKeep

NextPattern ==
    \/ CompileTitle
    \/ MatchTitle

SpecPattern == InitPattern /\ [][NextPattern]_vars

\* Startup: the initial main() constructing SonarrYTDL() on any disk and
\* any config.yml.
ConfigContents ==
    { [k \in ks |-> IF k = "series" THEN <<>> ELSE "set"] :
        ks \in SUBSET { ConfigKeys[i].key : i \in 1..Len(ConfigKeys) } }

InitStartup ==
    /\ Loaded
    /\ pc = "boot"
    /\ passStart = NoJob
    /\ wanted = <<>>
    /\ remote = <<>>
    /\ series = <<>>
    /\ \E fs \in SUBSET {ConfigFile, ConfigTemplate, AppTemplate} :
          qry \in { [files |-> fs, cfg |-> c] :
                      c \in IF ConfigFile \in fs THEN ConfigContents ELSE {NoneVal} }
    /\ ans = NoneVal

StartupKeeps ==
    UNCHANGED <<clock, now, nextRun, remote, series, fetched, episodes, pos,
                last, downloaded, dlFailed, uncaught, qry>>

\* checkconfig() finds no config.yml: SystemExit leaves main().
ConfigMissing ==
    /\ pc = "boot"
    /\ ConfigFile \notin qry.files
    /\ LET c == SonarrYTDL(qry.files, qry.cfg)
       IN  ans' = [status |-> ExitStatus(c.arg), files |-> c.files, log |-> c.log]
    /\ pc' = "exited"
    /\ UNCHANGED <<passStart, wanted>>
    /\ StartupKeeps

\* config.yml is there and lacks a value __init__ reads.
ConfigInvalid ==
    /\ pc = "boot"
    /\ ConfigFile \in qry.files
    /\ LET c == SonarrYTDL(qry.files, qry.cfg)
       IN  /\ c.exit
           /\ ans' = [status |-> ExitStatus(c.arg), files |-> c.files, log |-> c.log]
    /\ pc' = "exited"
    /\ UNCHANGED <<passStart, wanted>>
    /\ StartupKeeps

\* The client is constructed and the pass begins.
ConfigLoaded ==
    /\ pc = "boot"
    /\ LET c == SonarrYTDL(qry.files, qry.cfg)
       IN  /\ ~c.exit
           /\ wanted' = c.cfg.series
           /\ ans' = [files |-> c.files, log |-> c.log]
    /\ pc' = "filterseries"
    /\ passStart' = Wall
    /\ StartupKeeps

NextStartup ==
    \/ ConfigMissing
    \/ ConfigInvalid
    \/ ConfigLoaded

SpecStartup == InitStartup /\ [][NextStartup]_vars


----------------------------------------------------------------------------
(* Claims *)

\* The need filter has returned and download has not run an iteration yet:
\* remote and fetched still hold what Sonarr answered in this pass.
Handoff == pc = "download" /\ pos = 0

\* main()'s series list as filterseries returned it.
Matched == filterseries(remote, wanted)

\* C1: when extract_info raises, the search outcome for the episode is "not
\* found" (logged as Missing) and no exception leaves the search, so the
\* download stage goes on.  Refuted: ytsearch returns None after the except
\* branch and the unpacking in download raises.
C1_RaisingSearchIsNotFound ==
    last.search = "raised" => (pc = "download" /\ last.log = "Missing")

\* C2: when get_series fails the process keeps running (only the pass is
\* aborted).  Refuted: nothing catches the exception.
C2_ListingFailureKeepsProcessRunning ==
    ~(pc = "crashed" /\ uncaught = "get_series")

\* C3: when the download returned and rescanseries raised, the episode is
\* logged as Downloaded.  Refuted: the rescan is inside the download's try.
C3_RescanFailureStillDownloaded ==
    (last.download = "ok" /\ last.rescan = "raise") => last.log = "Downloaded"

\* C4: the `now` the need filter has compared an air date with is the time at
\* which the running pass started.  Refuted: it is the time the module was
\* loaded, in every pass.
C4_ComparedAirDate ==
    \E i \in DOMAIN fetched :
        \E k \in 1..Len(fetched[i]) : "airDateUtc" \in DOMAIN fetched[i][k]
C4_NowIsPassStart ==
    (Handoff /\ C4_ComparedAirDate) => now = passStart

\* C5: once a download has raised in a pass, every later pair of the pass is
\* still searched: the pass does not end with pairs after the next one left.
\* Refuted by the search of C1 ending the process.
C5_PairsAfterFailedDownloadSearched ==
    (dlFailed /\ pc = "crashed") => pos + 1 >= Len(Pairs(series, episodes))

\* C8: within a pass YoutubeDL.download is not called for an episode id it was
\* already called for.  Refuted by a title listed twice in config.yml.
C8_DownloadAtMostOncePerEpisode ==
    ~last.again

\* C6: a listed episode is in the needed list iff it is monitored, has no
\* file, and has no air date or its air date plus the series offset (if any)
\* is not after now.
C6_Minutes(d) == d.day * 1440 + d.hour * 60 + d.minute
C6_Shift(ser) ==
    IF "offset" \in DOMAIN ser
    THEN Get(ser.offset, "weeks") * 10080 + Get(ser.offset, "days") * 1440
         + Get(ser.offset, "hours") * 60 + Get(ser.offset, "minutes")
    ELSE 0
C6_Due(ser, eps) ==
    \/ "airDateUtc" \notin DOMAIN eps
    \/ C6_Minutes(eps.airDateUtc) + C6_Shift(ser) <= now
C6_NeededIffMonitoredFilelessDue ==
    Handoff =>
        \A i \in 1..Len(Matched) :
            \A k \in 1..Len(fetched[Matched[i].id]) :
                LET ser == Matched[i]
                    eps == fetched[ser.id][k]
                IN  (eps \in Range(episodes))
                    <=> (eps.monitored /\ ~eps.hasFile /\ C6_Due(ser, eps))

\* The filter has run on a list holding: an episode on disk that aired in the
\* past; a monitored fileless one without air date; one whose offset moves it
\* from after now to not after now (needed); one whose offset moves it past
\* now (not needed).
C6_Witness ==
    /\ Handoff
    /\ Len(Matched) = 1
    /\ "offset" \in DOMAIN Matched[1]
    /\ \E e \in Range(fetched[1]) :
          /\ "airDateUtc" \in DOMAIN e
          /\ C6_Minutes(e.airDateUtc) > now
          /\ e \in Range(episodes)
    /\ \E e \in Range(fetched[1]) :
          /\ e.monitored /\ ~e.hasFile /\ "airDateUtc" \notin DOMAIN e
          /\ e \in Range(episodes)

\* ... and, in another run, an episode on disk with a past air date, and one
\* moved past now by the offset.
C6_WitnessExcluded ==
    /\ Handoff
    /\ "offset" \in DOMAIN Matched[1]
    /\ \E e \in Range(fetched[1]) :
          /\ e.hasFile /\ e.monitored /\ "airDateUtc" \in DOMAIN e
          /\ C6_Minutes(e.airDateUtc) < now
          /\ e \notin Range(episodes)
    /\ \E e \in Range(fetched[1]) :
          /\ e.monitored /\ ~e.hasFile /\ "airDateUtc" \in DOMAIN e
          /\ C6_Minutes(e.airDateUtc) <= now
          /\ e \notin Range(episodes)

\* C7: after the need filter, main()'s series list is the list filterseries
\* returned with exactly the series that have no needed episode removed, the
\* others in their original order.
C7_HasNeeded(ser) == \E i \in 1..Len(episodes) : episodes[i].seriesId = ser.id
C7_SeriesWithoutNeededEpisodesDropped ==
    Handoff => series = SelectSeq(Matched, C7_HasNeeded)

\* Two different series were matched; the first needed nothing and is gone,
\* the second is still there.
C7_Witness ==
    /\ Handoff
    /\ Len(Matched) = 2
    /\ Matched[1].id # Matched[2].id
    /\ series = <<Matched[2]>>
    /\ ~C7_HasNeeded(Matched[1])

\* C10: filterseries returns a policy for exactly the listed series whose
\* title equals a configured title, monitored or not; a configured title that
\* no listed series has yields nothing; and the need filter keeps an
\* unmonitored series and its needed episode like any other.
C10_Configured(ser) == \E k \in 1..Len(wanted) : wanted[k].title = ser.title
C10_NeededEpisode(sid) ==
    [id |-> EpId(sid, 1), seriesId |-> sid, monitored |-> TRUE, hasFile |-> FALSE]
C10_PoliciesForExactlyTheTitleMatches ==
    pc = "getseriesepisodes" =>
        /\ \A j \in 1..Len(remote) :
              C10_Configured(remote[j]) <=> remote[j].id \in SeriesIdsOf(series)
        /\ \A i \in 1..Len(series) :
              /\ \E j \in 1..Len(remote) :
                    /\ remote[j].id = series[i].id
                    /\ remote[j].title = series[i].title
                    /\ remote[j].monitored = series[i].monitored
              /\ C10_Configured(series[i])
        /\ \A i \in 1..Len(series) :
              LET ser == series[i]
                  eps == C10_NeededEpisode(ser.id)
                  r   == getseriesepisodes(<<ser>>, [x \in {ser.id} |-> <<eps>>], now)
              IN  r.series = <<ser>> /\ r.needed = <<eps>>

\* A configured title matched an unmonitored series; another configured
\* title matched nothing (the collection only has it in the other case).
C10_Witness ==
    /\ pc = "getseriesepisodes"
    /\ \E i \in 1..Len(series) : ~series[i].monitored
    /\ \E k \in 1..Len(wanted) :
          \A j \in 1..Len(remote) : remote[j].title # wanted[k].title

\* C9: for a result dict, the URL is the first entry's when the result has
\* entries and the result's own otherwise; ytsearch returns found with that
\* URL iff there is one and it differs from the playlist URL.  Refuted by a
\* result whose entries are empty (or [None]): its own URL is taken.
C9_Url(result) ==
    IF "entries" \in DOMAIN result
    THEN IF result.entries = <<>> \/ IsNone(result.entries[1])
         THEN None
         ELSE GetUrl(result.entries[1])
    ELSE GetUrl(result)
C9_FoundIffResolvedAndNotPlaylist ==
    (pc = "searched" /\ ~qry.out.raised /\ ~IsNone(qry.out.result)) =>
        LET url == C9_Url(qry.out.result)
        IN  ans = IF url # None /\ url # qry.playlist THEN Found(url) ELSE NotFound

\* C11: a series with a cookies_file that is not on disk still gets its search
\* and download option sets, neither holds a cookiefile option and a warning
\* is logged for each; when the file is on disk both hold its path.
C11_Checked(built) ==
    LET path == CookiePath(qry.ser.cookies_file)
    IN  IF path \in qry.files
        THEN "cookiefile" \in DOMAIN built.opts /\ built.opts.cookiefile = path
        ELSE "cookiefile" \notin DOMAIN built.opts /\ built.log = <<"warning">>
C11_MissingCookieFileLeftOut ==
    (pc \in {"search", "try"} /\ "cookies_file" \in DOMAIN qry.ser) =>
        /\ C11_Checked(ans.search)
        /\ pc = "try" => C11_Checked(ans.download)
C11_Witness ==
    /\ pc = "try"
    /\ "cookies_file" \in DOMAIN qry.ser
    /\ CookiePath(qry.ser.cookies_file) \notin qry.files
    /\ qry.files # {}
    /\ "cookiefile" \notin DOMAIN ans.download.opts

\* C12: for a title holding the word AND between spaces, the compiled pattern
\* matches the title as written and the title written with " & " in that
\* place.  Refuted: upperescape looks for "\ AND\ ", which an unescaped title
\* does not hold, so the pattern keeps the literal AND.
C12_AndAmpersandInterchangeable ==
    (pc = "matched" /\ AndPositions(qry.title) # {}) => ans.matched

\* C13: when config.yml is missing at startup the process leaves a template
\* configuration file, ends with a non-zero exit status and runs no pass.
\* Refuted: checkconfig ends the process with sys.exit(), whose status is 0.
C13_MissingConfigExitsNonZero ==
    (pc # "boot" /\ ConfigFile \notin qry.files) =>
        /\ pc = "exited"
        /\ passStart = NoJob
        /\ ConfigTemplate \in ans.files
        /\ ans.status # 0

\* C14: at the hand-off every needed episode belongs to a series still in the
\* list and every series in the list has a needed episode; the download stage
\* then searches for exactly the needed episodes, series by series in list
\* order and within a series in the order Sonarr listed them, and reaches
\* every one of them.  Refuted: a search that raises ends the process before
\* the later episodes are searched (C1), and a title configured twice makes
\* the stage search for the same episodes again (C8).
C14_Consistent ==
    /\ \A k \in 1..Len(episodes) : episodes[k].seriesId \in SeriesIdsOf(series)
    /\ \A i \in 1..Len(series) :
          \E k \in 1..Len(episodes) : episodes[k].seriesId = series[i].id
RECURSIVE C14_Expected(_)
C14_Expected(sl) ==
    IF sl = <<>> THEN <<>>
    ELSE LET ser == Head(sl)
             keep(eps) == ~Excluded(ser, eps, now)
             ids == [k \in 1..Len(SelectSeq(fetched[ser.id], keep)) |->
                        <<ser.id, SelectSeq(fetched[ser.id], keep)[k].id>>]
         IN  ids \o C14_Expected(Tail(sl))
C14_Searches ==
    [k \in 1..Len(Pairs(series, episodes)) |->
        <<Pairs(series, episodes)[k].ser.id, Pairs(series, episodes)[k].eps.id>>]
C14_InOrder == C14_Searches = C14_Expected(series)
C14_AllSearched ==
    (pc = "crashed" /\ uncaught = "ytsearch") => pos + 1 = Len(Pairs(series, episodes))
C14_NeededEpisodesSearchedInOrder ==
    /\ Handoff => (C14_Consistent /\ C14_InOrder)
    /\ C14_AllSearched

====
